---------------------------- MODULE Spec2Model ----------------------------
(***************************************************************************)
(* Model of the inventory dashboard's data layer (src/src/database.py),    *)
(* of its statistical forecaster (src/src/predictor.py), of its anomaly    *)
(* detector (src/src/anomaly_detection.py) and of its product clusterer    *)
(* (src/src/clustering.py).                                                *)
(*                                                                         *)
(* Data layer: the PostgreSQL tables productos and ventas hold the         *)
(* committed rows.  Every user session runs one DatabaseManager call at a  *)
(* time; register_sale is a multi-statement transaction, so it is split    *)
(* at its statements (SELECT ... FOR UPDATE, the Python checks, INSERT,    *)
(* UPDATE, COMMIT) and the sessions interleave between statements.  The    *)
(* writes of an open transaction live in the session until COMMIT (READ    *)
(* COMMITTED: other sessions never see them).                              *)
(*                                                                         *)
(* Forecaster: predict_sales and calculate_metrics are pure functions of   *)
(* their frames; they are operators here, computed in fixed point (Scale   *)
(* units per 1.0) with an explicit NaN that follows the IEEE / Python      *)
(* rules the code depends on.                                              *)
(*                                                                         *)
(* Anomaly detector and clusterer: each call is one step.  The fitted      *)
(* estimators of scikit-learn are modelled by their contract: the          *)
(* isolation forest is a function of its input and of its random_state,    *)
(* with the labels cut at the 10th percentile of the scores as the library *)
(* does; k-means returns some label below n_clusters for every row and     *)
(* raises when there are fewer rows than clusters.                         *)
(*                                                                         *)
(* Pages (src/app.py): Streamlit reruns the script on every widget event,  *)
(* so a page is a step ScriptRun over the widget state; a button is true   *)
(* only in the run its click triggered.  init_components is cached with    *)
(* st.cache_resource, so its objects (and the assistant's conversation     *)
(* memory, src/src/inventory_assistant.py) are per process, not per        *)
(* session.  get_product_sales builds the 91-day series the forecaster     *)
(* and the detector read.                                                  *)
(***************************************************************************)
EXTENDS Integers, Sequences, FiniteSets, TLC

(***************************************************************************)
(* Bounds of the data-layer model.                                         *)
(***************************************************************************)
NumSessions == 2
MaxProducts == 2
MaxStock == 2
MaxQty == 2
MaxCalls == 2

(* SQL NULL / Python None for a scalar result. *)
NULL == -9999

Sessions == 1..NumSessions
ProductIds == 1..MaxProducts
StockValues == 0..MaxStock
Quantities == (-1)..MaxQty
Prices == {9}

VARIABLES
    productos,      \* table productos: id -> row (committed)
    ventas,         \* table ventas: sequence of committed rows
    nextVentaId,    \* serial sequence of ventas.id
    nextProductId,  \* serial sequence of productos.id
    lock,           \* row lock of each productos row: holder session or NULL
    ses,            \* per session: the running call, its position and locals
    returned,       \* the call that returned in the latest step, if any
    calls,          \* number of calls started so far
    stock0,         \* stock of every product in the initial state
    hist,           \* forecaster: the caller's history frame
    periods,        \* forecaster: requested horizon
    forecast,       \* forecaster: what predict_sales returned
    metrics,        \* forecaster: what calculate_metrics returned
    sales_data,     \* detector: the frame db.get_product_sales returns
    window_size,    \* detector: argument of detect_sales_anomalies
    inventory_data, \* detector: the result of the inventory query
    forestNaN,      \* detector: does the installed isolation forest accept NaN
    anomalias,      \* table anomalias: sequence of saved rows
    det,            \* detector: per kind, what the latest call returned
    detPrev,        \* detector: per kind, what the call before it returned
    runs,           \* detector: per kind, number of calls so far
    productos_df,   \* clusterer: the caller's product frame
    clustering,     \* table clustering: sequence of saved rows
    clu,            \* clusterer: outcome of the latest clustering run
    cluRuns,        \* clusterer: number of runs so far
    series,         \* get_product_sales: what the latest call returned
    cache,          \* st.cache_resource entry of init_components, NULL before the first call
    comp,           \* per browser session: the components its script got from init_components
    memory,         \* per assistant instance: the exchanges its ConversationBufferMemory holds
    asked,          \* number of assistant calls so far
    ui,             \* Predicciones page: widget state, pending trigger, what is on screen
    predicciones,   \* table predicciones: sequence of saved rows
    metricas,       \* table metricas: sequence of saved rows
    form            \* edit form of the Productos page: the values it was filled with

dbVars == <<productos, ventas, nextVentaId, nextProductId, lock, ses, returned, calls, stock0>>
predVars == <<hist, periods, forecast, metrics>>
anomVars == <<sales_data, window_size, inventory_data, forestNaN, anomalias, det, detPrev, runs>>
clustVars == <<productos_df, clustering, clu, cluRuns>>
uiVars == <<series, cache, comp, memory, asked, ui, predicciones, metricas>>
editVars == <<form>>
vars == <<productos, ventas, nextVentaId, nextProductId, lock, ses, returned, calls, stock0,
          hist, periods, forecast, metrics,
          sales_data, window_size, inventory_data, forestNaN, anomalias, det, detPrev, runs,
          productos_df, clustering, clu, cluRuns,
          series, cache, comp, memory, asked, ui, predicciones, metricas, form>>

(***************************************************************************)
(* Rows, session records and returns.                                      *)
(***************************************************************************)
(* A row of productos: of its columns only stock_actual is read by the      *)
(* operations modelled; the others are written along with it.               *)
NoRow == [exists |-> FALSE, stock_actual |-> 0]

ProductRow(stock_actual) == [exists |-> TRUE, stock_actual |-> stock_actual]

VentaRow(id, producto_id, cantidad, precio_venta) ==
    [id |-> id, producto_id |-> producto_id, cantidad |-> cantidad, precio_venta |-> precio_venta]

IdleSession ==
    [pc |-> "idle", op |-> "none", producto_id |-> 0, cantidad |-> 0, precio_venta |-> 0,
     stock_actual |-> NULL, venta_id |-> NULL, new_stock |-> NULL]

(* The call that returned to its caller in the latest step: its arguments,  *)
(* and "ok" with the returned value or the exception raised ("ValueError",  *)
(* msg telling which, or "Exception").  For register_sale stock_actual is   *)
(* the stock the SELECT read; for add / update it is the argument.          *)
NoReturn ==
    [session |-> 0, op |-> "none", producto_id |-> 0, cantidad |-> 0, precio_venta |-> 0,
     stock_actual |-> NULL, status |-> "none", msg |-> "", value |-> NULL]

SaleReturn(s, status, msg, value) ==
    [session |-> s, op |-> "register_sale", producto_id |-> ses[s].producto_id,
     cantidad |-> ses[s].cantidad, precio_venta |-> ses[s].precio_venta,
     stock_actual |-> ses[s].stock_actual, status |-> status, msg |-> msg, value |-> value]

ProductReturn(s, op, p, stock_actual, status, msg, value) ==
    [session |-> s, op |-> op, producto_id |-> p, cantidad |-> 0, precio_venta |-> 0,
     stock_actual |-> stock_actual, status |-> status, msg |-> msg, value |-> value]

RECURSIVE SumCantidad(_, _)
SumCantidad(rows, p) ==
    IF rows = <<>> THEN 0
    ELSE (IF Head(rows).producto_id = p THEN Head(rows).cantidad ELSE 0) + SumCantidad(Tail(rows), p)

(***************************************************************************)
(* register_sale, statement by statement.                                  *)
(***************************************************************************)

(* SELECT ... FOR UPDATE waits while another transaction holds the row. *)
CanLock_NoForUpdate(s, p) == TRUE

CanLock(s, p) == lock[p] = NULL

(* if stock_actual < cantidad: raise ValueError("Stock insuficiente") *)
InsufficientStock_le(stock_actual, cantidad) == stock_actual <= cantidad

InsufficientStock_never(stock_actual, cantidad) == FALSE

InsufficientStock(stock_actual, cantidad) == stock_actual < cantidad

(* SET stock_actual = stock_actual - :cantidad *)
NewStock(stock_actual, cantidad) == stock_actual - cantidad

(* What the ventas table holds after a transaction ends without COMMIT:     *)
(* engine.begin() rolls the pending INSERT back.                            *)
RollbackVentas_autocommit(s) ==
    IF ses[s].pc \in {"update", "commit"}
    THEN Append(ventas, VentaRow(ses[s].venta_id, ses[s].producto_id, ses[s].cantidad,
                                 ses[s].precio_venta))
    ELSE ventas

RollbackVentas(s) == ventas

ReleaseLocks(s) == [p \in ProductIds |-> IF lock[p] = s THEN NULL ELSE lock[p]]

(* A call is served by the first session that is not inside a call: the     *)
(* sessions are interchangeable.                                            *)
FreeSession(s) == ses[s].pc = "idle" /\ \A t \in 1..(s - 1) : ses[t].pc # "idle"

(* db.register_sale(producto_id, cantidad, precio_venta): engine.begin() *)
RS_Call(s, p, q, pr) ==
    /\ FreeSession(s)
    /\ calls < MaxCalls
    /\ calls' = calls + 1
    /\ ses' = [ses EXCEPT ![s] = [IdleSession EXCEPT !.pc = "select", !.op = "register_sale",
                                    !.producto_id = p, !.cantidad = q, !.precio_venta = pr]]
    /\ returned' = NoReturn
    /\ UNCHANGED <<productos, ventas, nextVentaId, nextProductId, lock, stock0>>
    /\ UNCHANGED <<predVars, anomVars, clustVars, uiVars, editVars>>

(* SELECT stock_actual FROM productos WHERE id = :producto_id FOR UPDATE *)
RS_Select(s) ==
    /\ ses[s].pc = "select"
    /\ LET p == ses[s].producto_id IN
         IF productos[p].exists
         THEN /\ CanLock(s, p)
              /\ lock' = [lock EXCEPT ![p] = s]
              /\ ses' = [ses EXCEPT ![s].pc = "validate",
                                    ![s].stock_actual = productos[p].stock_actual]
         ELSE /\ lock' = lock
              /\ ses' = [ses EXCEPT ![s].pc = "validate", ![s].stock_actual = NULL]
    /\ returned' = NoReturn
    /\ UNCHANGED <<productos, ventas, nextVentaId, nextProductId, calls, stock0>>
    /\ UNCHANGED <<predVars, anomVars, clustVars, uiVars, editVars>>

(* The two Python checks; a ValueError leaves the with-block: ROLLBACK. *)
RS_Validate(s) ==
    /\ ses[s].pc = "validate"
    /\ IF ses[s].stock_actual = NULL \/ InsufficientStock(ses[s].stock_actual, ses[s].cantidad)
       THEN /\ returned' = SaleReturn(s, "ValueError",
                                      IF ses[s].stock_actual = NULL THEN "Producto no encontrado"
                                      ELSE "Stock insuficiente", NULL)
            /\ ses' = [ses EXCEPT ![s] = IdleSession]
            /\ lock' = ReleaseLocks(s)
            /\ ventas' = RollbackVentas(s)
       ELSE /\ ses' = [ses EXCEPT ![s].pc = "insert"]
            /\ returned' = NoReturn
            /\ UNCHANGED <<lock, ventas>>
    /\ UNCHANGED <<productos, nextVentaId, nextProductId, calls, stock0>>
    /\ UNCHANGED <<predVars, anomVars, clustVars, uiVars, editVars>>

(* INSERT INTO ventas ... RETURNING id *)
RS_Insert(s) ==
    /\ ses[s].pc = "insert"
    /\ ses' = [ses EXCEPT ![s].pc = "update", ![s].venta_id = nextVentaId]
    /\ nextVentaId' = nextVentaId + 1
    /\ returned' = NoReturn
    /\ UNCHANGED <<productos, ventas, nextProductId, lock, calls, stock0>>
    /\ UNCHANGED <<predVars, anomVars, clustVars, uiVars, editVars>>

(* UPDATE productos SET stock_actual = stock_actual - :cantidad WHERE id = :producto_id *)
RS_Update(s) ==
    /\ ses[s].pc = "update"
    /\ ses' = [ses EXCEPT ![s].pc = "commit",
                          ![s].new_stock = NewStock(productos[ses[s].producto_id].stock_actual,
                                                    ses[s].cantidad)]
    /\ returned' = NoReturn
    /\ UNCHANGED <<productos, ventas, nextVentaId, nextProductId, lock, calls, stock0>>
    /\ UNCHANGED <<predVars, anomVars, clustVars, uiVars, editVars>>

(* return venta_id: the with-block exits normally, COMMIT *)
RS_Commit(s) ==
    /\ ses[s].pc = "commit"
    /\ ventas' = Append(ventas, VentaRow(ses[s].venta_id, ses[s].producto_id, ses[s].cantidad,
                                         ses[s].precio_venta))
    /\ productos' = [productos EXCEPT ![ses[s].producto_id].stock_actual = ses[s].new_stock]
    /\ lock' = ReleaseLocks(s)
    /\ returned' = SaleReturn(s, "ok", "", ses[s].venta_id)
    /\ ses' = [ses EXCEPT ![s] = IdleSession]
    /\ UNCHANGED <<nextVentaId, nextProductId, calls, stock0>>
    /\ UNCHANGED <<predVars, anomVars, clustVars, uiVars, editVars>>

(* A database error at any statement of the transaction: ROLLBACK, then    *)
(* except Exception: raise Exception("Error al registrar la venta")        *)
RS_DbError(s) ==
    /\ ses[s].pc \in {"select", "insert", "update", "commit"}
    /\ returned' = SaleReturn(s, "Exception", "Error al registrar la venta", NULL)
    /\ ventas' = RollbackVentas(s)
    /\ lock' = ReleaseLocks(s)
    /\ ses' = [ses EXCEPT ![s] = IdleSession]
    /\ UNCHANGED <<productos, nextVentaId, nextProductId, calls, stock0>>
    /\ UNCHANGED <<predVars, anomVars, clustVars, uiVars, editVars>>

(***************************************************************************)
(* add_product and update_product: one statement, one transaction.         *)
(***************************************************************************)

(* INSERT INTO productos ... RETURNING id; any error is re-raised *)
add_product(s, stock_actual, dbError) ==
    /\ FreeSession(s)
    /\ calls < MaxCalls
    /\ nextProductId <= MaxProducts
    /\ calls' = calls + 1
    /\ IF dbError
       THEN /\ returned' = ProductReturn(s, "add_product", 0, stock_actual,
                                         "Exception", "Error al anadir producto", NULL)
            /\ UNCHANGED <<productos, nextProductId>>
       ELSE /\ productos' = [productos EXCEPT ![nextProductId] = ProductRow(stock_actual)]
            /\ nextProductId' = nextProductId + 1
            /\ returned' = ProductReturn(s, "add_product", 0, stock_actual,
                                         "ok", "", nextProductId)
    /\ UNCHANGED <<ventas, nextVentaId, lock, ses, stock0>>
    /\ UNCHANGED <<predVars, anomVars, clustVars, uiVars, editVars>>

(* result.rowcount of the UPDATE ... WHERE id = :product_id *)
Rowcount_one(p) == 1

Rowcount(p) == IF productos[p].exists THEN 1 ELSE 0

(* UPDATE productos SET ... WHERE id = :product_id; the statement waits for *)
(* the row lock; rowcount 0 raises ValueError, re-raised as Exception       *)
update_product(s, p, stock_actual, dbError) ==
    /\ FreeSession(s)
    /\ calls < MaxCalls
    /\ productos[p].exists => lock[p] = NULL
    /\ calls' = calls + 1
    /\ IF dbError \/ Rowcount(p) = 0
       THEN /\ returned' = ProductReturn(s, "update_product", p, stock_actual,
                                         "Exception", "Error al actualizar producto", NULL)
            /\ UNCHANGED productos
       ELSE /\ productos' = [productos EXCEPT ![p] =
                   IF productos[p].exists THEN ProductRow(stock_actual)
                   ELSE productos[p]]
            /\ returned' = ProductReturn(s, "update_product", p, stock_actual,
                                         "ok", "", 1)
    /\ UNCHANGED <<ventas, nextVentaId, nextProductId, lock, ses, stock0>>
    /\ UNCHANGED <<predVars, anomVars, clustVars, uiVars>>

(***************************************************************************)
(* Forecaster arithmetic.  A float x is the integer x * Scale; NaN is a    *)
(* value of its own.  Comparisons with NaN are false, arithmetic on NaN    *)
(* gives NaN, and Python's max / min / `or` are modelled as they evaluate. *)
(***************************************************************************)
Scale == 100
MaxLen == 3
MaxY == 2
MaxPad == 5
MaxPeriods == 3

NaN == -2000000000
BadStr == -1999999999

FAdd(a, b) == IF a = NaN \/ b = NaN THEN NaN ELSE a + b
FSub(a, b) == IF a = NaN \/ b = NaN THEN NaN ELSE a - b
FMul(a, b) == IF a = NaN \/ b = NaN THEN NaN ELSE (a * b) \div Scale
FDiv(a, b) == IF a = NaN \/ b = NaN THEN NaN ELSE (a * Scale) \div b
FTimes(a, k) == IF a = NaN THEN NaN ELSE a * k
FLt(a, b) == a # NaN /\ b # NaN /\ a < b
FGt(a, b) == a # NaN /\ b # NaN /\ a > b
FLe(a, b) == a # NaN /\ b # NaN /\ a <= b

(* max(a, b): b replaces a only when b > a; min(a, b) likewise *)
PyMax(a, b) == IF FGt(b, a) THEN b ELSE a
PyMin(a, b) == IF FLt(b, a) THEN b ELSE a

(* x or d: NaN is truthy, only 0 is replaced *)
OrDefault(x, d) == IF x = 0 THEN d ELSE x

RECURSIVE SumSeq(_)
SumSeq(xs) ==
    IF xs = <<>> THEN 0
    ELSE IF Len(xs) = 1 THEN xs[1]
    ELSE LET half == Len(xs) \div 2
         IN SumSeq(SubSeq(xs, 1, half)) + SumSeq(SubSeq(xs, half + 1, Len(xs)))

SelectNum(xs) == SelectSeq(xs, LAMBDA v : v # NaN)

(* Series.mean(): skips NaN, NaN when nothing is left *)
Mean(xs) ==
    LET ns == SelectNum(xs) IN
    IF ns = <<>> THEN NaN ELSE SumSeq(ns) \div Len(ns)

Isqrt(v) == CHOOSE r \in 0..((MaxY + 2) * Scale) : r * r <= v /\ (r + 1) * (r + 1) > v

(* Series.std(): sample standard deviation (ddof = 1), NaN below two values *)
Std(xs) ==
    LET ns == SelectNum(xs)
        m == Mean(ns)
        sq == [i \in 1..Len(ns) |-> (ns[i] - m) * (ns[i] - m)]
    IN IF Len(ns) < 2 THEN NaN ELSE Isqrt(SumSeq(sq) \div (Len(ns) - 1))

(* Series.tail(30) *)
Tail30(xs) == IF Len(xs) <= 30 THEN xs ELSE SubSeq(xs, Len(xs) - 29, Len(xs))

(***************************************************************************)
(* Frames.  A history frame has columns ds, y (and weekday once added);    *)
(* ds is a day number, day 0 being a Monday; dsOk is false when the ds     *)
(* column cannot be parsed as dates.                                       *)
(***************************************************************************)
NoneFrame == [none |-> TRUE, dsOk |-> TRUE, weekday |-> FALSE, rows |-> <<>>]

HistFrame(dsOk, rows) == [none |-> FALSE, dsOk |-> dsOk, weekday |-> FALSE, rows |-> rows]

Weekday(ds) == ds % 7

YCol(rows) == [i \in 1..Len(rows) |-> rows[i].y]

(* pd.to_numeric(errors='coerce') *)
ToNumeric(rows) ==
    [i \in 1..Len(rows) |-> [rows[i] EXCEPT !.y = IF rows[i].y = BadStr THEN NaN ELSE rows[i].y]]

(* dropna(subset=['y']) *)
Dropna(rows) == SelectSeq(rows, LAMBDA r : r.y # NaN)

(* _calculate_trend *)
_calculate_trend(data) ==
    LET sales == YCol(data)
        n == Len(sales)
        diffs == [i \in 1..(n - 1) |-> sales[i + 1] - sales[i]]
        avg_diff == SumSeq(diffs) \div (n - 1)
        eps == 1
    IN IF n < 2 THEN 0
       ELSE FDiv(avg_diff, Mean(SubSeq(sales, 1, n - 1)) + eps)

(* _calculate_seasonality: weekday -> factor in [0.5, 1.5]; all 1.0 when   *)
(* the dates cannot be parsed                                               *)
_calculate_seasonality(data, dsOk) ==
    LET overall_avg == OrDefault(Mean(YCol(data)), Scale)
        OfDay(day) == SelectSeq(data, LAMBDA r : Weekday(r.ds) = day)
    IN [day \in 0..6 |->
          IF ~dsOk \/ OfDay(day) = <<>> THEN Scale
          ELSE PyMax(Scale \div 2, PyMin((3 * Scale) \div 2,
                                        FDiv(Mean(YCol(OfDay(day))), overall_avg)))]

MaxDs(rows) ==
    LET ds == {rows[i].ds : i \in 1..Len(rows)}
    IN CHOOSE d \in ds : \A e \in ds : e <= d

NoneForecast == [set |-> TRUE, none |-> TRUE, raised |-> FALSE, cols |-> FALSE, rows |-> <<>>]
UnsetForecast == [set |-> FALSE, none |-> TRUE, raised |-> FALSE, cols |-> FALSE, rows |-> <<>>]
RaisedForecast == [set |-> TRUE, none |-> TRUE, raised |-> TRUE, cols |-> FALSE, rows |-> <<>>]
EmptyDataFrame == [set |-> TRUE, none |-> FALSE, raised |-> FALSE, cols |-> FALSE, rows |-> <<>>]

(* A forecast frame that did not come from predict_sales *)
OtherForecast ==
    [set |-> TRUE, none |-> FALSE, raised |-> FALSE, cols |-> TRUE,
     rows |-> <<[ds |-> 0, yhat |-> 2 * Scale, yhat_lower |-> Scale, yhat_upper |-> 3 * Scale]>>]

(* future_dates[i] of a range that starts on the last date itself *)
FutureDate_fromLast(last_date, i) == last_date + i

(* future_dates[i]: date_range(start = last_date + 1 day, freq = 'D') *)
FutureDate(last_date, i) == last_date + 1 + i

(* The pass with the prediction floored at one unit instead of zero *)
ForecastRow_floorOne(i, last_date, mean_sales, std_sales, trend, seasonality) ==
    LET date == FutureDate(last_date, i)
        base_prediction == PyMax(0, FMul(mean_sales, FAdd(Scale, FMul(trend, (i * Scale) \div 30))))
        seasonal_factor == seasonality[Weekday(date)]
        prediction == PyMax(Scale, FMul(base_prediction, seasonal_factor))
        std_factor == 196
        lower == PyMax(0, FSub(prediction, FMul(std_factor, std_sales)))
        upper == FAdd(prediction, FMul(std_factor, std_sales))
    IN [ds |-> date, yhat |-> prediction, yhat_lower |-> lower, yhat_upper |-> upper]

(* One pass of the loop over future_dates (i counts from 0) *)
ForecastRow(i, last_date, mean_sales, std_sales, trend, seasonality) ==
    LET date == FutureDate(last_date, i)
        base_prediction == PyMax(0, FMul(mean_sales, FAdd(Scale, FMul(trend, (i * Scale) \div 30))))
        seasonal_factor == seasonality[Weekday(date)]
        prediction == PyMax(0, FMul(base_prediction, seasonal_factor))
        std_factor == 196
        lower == PyMax(0, FSub(prediction, FMul(std_factor, std_sales)))
        upper == FAdd(prediction, FMul(std_factor, std_sales))
    IN [ds |-> date, yhat |-> prediction, yhat_lower |-> lower, yhat_upper |-> upper]

(* Does the body of predict_sales raise?  The dates cannot be parsed,      *)
(* periods is negative, or no row is left after to_numeric and dropna      *)
PredictRaises(h, n) ==
    \/ ~h.dsOk
    \/ n < 0
    \/ \A i \in 1..Len(h.rows) : h.rows[i].y \in {NaN, BadStr}

(* Lines 29-80 of predict_sales, reached with a frame that has rows.  Every *)
(* exception there (unparseable ds, NaT as last date, negative periods) is  *)
(* caught by the except block and gives None.                               *)
PredictBody(h, n) ==
    LET data == Dropna(ToNumeric(h.rows))
        mean_sales == OrDefault(Mean(YCol(data)), 0)
        std_sales == OrDefault(Std(YCol(data)), 0)
        trend == OrDefault(_calculate_trend(data), 0)
        seasonality == _calculate_seasonality(data, h.dsOk)
    IN IF PredictRaises(h, n) THEN NoneForecast
       ELSE [set |-> TRUE, none |-> FALSE, raised |-> FALSE, cols |-> TRUE,
             rows |-> [j \in 1..n |-> ForecastRow(j - 1, MaxDs(data), mean_sales,
                                                   std_sales, trend, seasonality)]]

(* predict_sales with the emptiness test outside the try block and first:   *)
(* .empty on None raises AttributeError                                     *)
predict_sales_unguarded(h, n) ==
    IF h.none THEN RaisedForecast
    ELSE IF h.rows = <<>> THEN NoneForecast ELSE PredictBody(h, n)

(* predict_sales: the value returned *)
predict_sales(h, n) ==
    IF h.none \/ h.rows = <<>> THEN NoneForecast ELSE PredictBody(h, n)

(* `prediccion is not None` for the value predict_sales returns *)
IsNonePrediction(h, n) == h.none \/ h.rows = <<>> \/ PredictRaises(h, n)

(* The caller's frame after predict_sales: y is coerced in place *)
HistAfterPredict(h) ==
    IF h.none \/ h.rows = <<>> THEN h ELSE [h EXCEPT !.rows = ToNumeric(h.rows)]

(***************************************************************************)
(* calculate_metrics.                                                      *)
(***************************************************************************)
YhatCol(rows) == [i \in 1..Len(rows) |-> rows[i].yhat]

HasBadStr(rows) == \E i \in 1..Len(rows) : rows[i].y = BadStr

WeekdaysPresent(rows) == {Weekday(rows[i].ds) : i \in 1..Len(rows)}

(* weekly_pattern of the inner try block: one row per weekday present,     *)
(* Monday first; assigning the seven Spanish names raises unless all seven *)
(* weekdays are present, and the handler then returns the zero pattern     *)
ZeroPattern == [d \in 1..7 |-> [dia |-> d, ventas_promedio |-> 0, conteo |-> 0]]

WeeklyPattern(rows) ==
    IF Cardinality(WeekdaysPresent(rows)) # 7 THEN ZeroPattern
    ELSE [d \in 1..7 |->
            LET ofDay == SelectSeq(rows, LAMBDA r : Weekday(r.ds) = d - 1)
            IN [dia |-> d, ventas_promedio |-> Mean(YCol(ofDay)),
                conteo |-> Len(SelectNum(YCol(ofDay)))]]

(* The defaults the design text names: 1, 3, 5 *)
DefaultMetrics_135 ==
    [set |-> TRUE, raised |-> FALSE, default |-> TRUE, trend_change |-> 0,
     monthly_predictions |-> <<>>, min_stock |-> 1 * Scale, max_stock |-> 5 * Scale,
     optimal_stock |-> 3 * Scale, weekly_pattern |-> <<>>]

(* The return value of the outer except block (lines 185-196) *)
DefaultMetrics ==
    [set |-> TRUE, raised |-> FALSE, default |-> TRUE, trend_change |-> 0,
     monthly_predictions |-> <<>>, min_stock |-> 15 * Scale, max_stock |-> 45 * Scale,
     optimal_stock |-> 30 * Scale, weekly_pattern |-> <<>>]

(* No call yet; and a call that let its exception out *)
UnsetMetrics ==
    [set |-> FALSE, raised |-> FALSE, default |-> FALSE, trend_change |-> 0,
     monthly_predictions |-> <<>>, min_stock |-> 0, max_stock |-> 0, optimal_stock |-> 0,
     weekly_pattern |-> <<>>]

RaisedMetrics == [UnsetMetrics EXCEPT !.set = TRUE, !.raised = TRUE]

(* Does the body of the outer try block raise?  None arguments, a forecast *)
(* without the yhat columns, a non-numeric y, or an unparseable ds: there  *)
(* the inner handler itself fails on the unassigned dias_es.               *)
MetricsBodyRaises(fc, h) ==
    \/ fc.none
    \/ h.none
    \/ ~fc.cols
    \/ HasBadStr(h.rows)
    \/ (h.rows # <<>> /\ ~h.dsOk)

(* Recommendation floors of lines 141-144 *)
StockMin(daily_avg) == PyMax(15 * Scale, FTimes(daily_avg, 15))
StockMax(daily_avg) == PyMax(45 * Scale, FTimes(daily_avg, 45))
StockOptimal_asMax(daily_avg) == PyMax(45 * Scale, FTimes(daily_avg, 45))

StockOptimal(daily_avg) == PyMax(30 * Scale, FTimes(daily_avg, 30))

(* trend_change guarded by prev_30_hist != 0 *)
TrendChange_ne(last_30_pred, prev_30_hist) ==
    IF prev_30_hist # 0
    THEN FTimes(FDiv(FSub(last_30_pred, prev_30_hist), prev_30_hist), 100)
    ELSE 0

(* trend_change of lines 132-135 *)
TrendChange(last_30_pred, prev_30_hist) ==
    IF FGt(prev_30_hist, 0)
    THEN FTimes(FDiv(FSub(last_30_pred, prev_30_hist), prev_30_hist), 100)
    ELSE 0

(* The return value of the try block (lines 174-183) when nothing raises *)
MetricsBody(fc, h) ==
    LET last_30_pred == OrDefault(Mean(Tail30(YhatCol(fc.rows))), 0)
        prev_30_hist == OrDefault(Mean(Tail30(YCol(h.rows))), 0)
        trend_change == TrendChange(last_30_pred, prev_30_hist)
        monthly_pred == Tail30(fc.rows)
        daily_avg == PyMax(Scale, Mean(YhatCol(monthly_pred)))
    IN [set |-> TRUE, raised |-> FALSE, default |-> FALSE, trend_change |-> trend_change,
        monthly_predictions |-> monthly_pred,
        min_stock |-> StockMin(daily_avg),
        max_stock |-> StockMax(daily_avg),
        optimal_stock |-> StockOptimal(daily_avg),
        weekly_pattern |-> IF h.rows = <<>> THEN <<>> ELSE WeeklyPattern(h.rows)]

(* calculate_metrics without the outer try / except *)
calculate_metrics_uncaught(fc, h) ==
    IF MetricsBodyRaises(fc, h) THEN RaisedMetrics ELSE MetricsBody(fc, h)

calculate_metrics(fc, h) ==
    IF MetricsBodyRaises(fc, h) THEN DefaultMetrics ELSE MetricsBody(fc, h)

(* The caller's history after calculate_metrics: ds converted and the      *)
(* weekday column added in place, when line 153 is reached                 *)
HistAfterMetrics(fc, h) ==
    IF MetricsBodyRaises(fc, h) \/ h.rows = <<>> THEN h ELSE [h EXCEPT !.weekday = TRUE]

(***************************************************************************)
(* Anomaly detector (src/src/anomaly_detection.py).                        *)
(***************************************************************************)
AnomLen == 2
MaxInv == 7
MaxRuns == 2
MaxSaveFailures == 1

(* window_size = 30, the default of detect_sales_anomalies *)
DefaultWindow == 30
(* A window chosen by the caller, below the two periods the decomposition needs *)
SmallWindow == 2
(* rolling(window = 7) and seasonal_decompose(period = 7) *)
Period == 7
(* contamination = 0.1, in percent *)
Contamination == 10

Tipos == {"venta", "inventario"}

RECURSIVE SumIdx(_, _)
SumIdx(xs, S) ==
    IF S = {} THEN 0
    ELSE LET i == CHOOSE j \in S : TRUE IN xs[i] + SumIdx(xs, S \ {i})

MeanIdx(xs, S) == SumIdx(xs, S) \div Cardinality(S)

(* fillna(0) *)
Fillna0(v) == IF v = NaN THEN 0 ELSE v

(* rolling(window = 7, min_periods = 1).mean(): trailing mean *)
Rolling(xs) ==
    SubSeq([i \in 1..Len(xs) |-> MeanIdx(xs, {j \in 1..Len(xs) : j <= i /\ j > i - Period})],
           1, Len(xs))

(* Trend of seasonal_decompose: centred mean over one period; at the two   *)
(* ends, where the library extrapolates, the mean of the days there are    *)
Trend(xs) ==
    SubSeq([i \in 1..Len(xs) |->
               MeanIdx(xs, {j \in 1..Len(xs) :
                               j >= i - (Period \div 2) /\ j <= i + (Period \div 2)})],
           1, Len(xs))

(* Seasonal component: mean of the detrended values of each phase of the   *)
(* period, centred on zero                                                  *)
Seasonal(detrended) ==
    LET avg == SubSeq([d \in 1..Period |->
                          MeanIdx(detrended,
                                  {i \in 1..Len(detrended) : (i - 1) % Period = d - 1})],
                      1, Period)
        centre == SumSeq(avg) \div Period
    IN SubSeq([i \in 1..Len(detrended) |-> avg[((i - 1) % Period) + 1] - centre],
              1, Len(detrended))

(* decomposition.resid, NaN filled with 0; needs two complete periods *)
Residual(xs) ==
    LET trend == Trend(xs)
        detrended == SubSeq([i \in 1..Len(xs) |-> xs[i] - trend[i]], 1, Len(xs))
        seasonal == Seasonal(detrended)
    IN SubSeq([i \in 1..Len(xs) |-> Fillna0(detrended[i] - seasonal[i])], 1, Len(xs))

CountEq(xs, v) == Cardinality({j \in 1..Len(xs) : xs[j] = v})

(* IsolationForest.score_samples: the lower, the easier a value is to      *)
(* isolate.  A value is scored by how rare it is in the sample; the trees  *)
(* drawn from random_state move the scores.                                *)
score_samples(xs, random_state) ==
    SubSeq([i \in 1..Len(xs) |->
               (Scale * CountEq(xs, xs[i])) \div Len(xs) - Scale
                   - ((random_state + CountEq(xs, xs[i])) % 2)],
           1, Len(xs))

(* The k-th smallest score, k counted from 0 *)
KthSmallest(s, k) ==
    CHOOSE v \in {s[j] : j \in 1..Len(s)} :
        /\ Cardinality({j \in 1..Len(s) : s[j] < v}) <= k
        /\ Cardinality({j \in 1..Len(s) : s[j] <= v}) > k

(* offset_ = np.percentile(scores, 100 * contamination), times 100 *)
Offset100(s) ==
    LET pos == (Len(s) - 1) * Contamination
        lo == pos \div 100
        hi == IF lo + 1 <= Len(s) - 1 THEN lo + 1 ELSE lo
    IN 100 * KthSmallest(s, lo) + (pos % 100) * (KthSmallest(s, hi) - KthSmallest(s, lo))

(* fit_predict: -1 where the score is below offset_, 1 elsewhere *)
fit_predict(s) ==
    LET offset == Offset100(s)
    IN SubSeq([i \in 1..Len(s) |-> IF 100 * s[i] < offset THEN -1 ELSE 1], 1, Len(s))

(* Does fit_predict raise?  No sample at all, or a NaN the installed       *)
(* version of the forest refuses                                           *)
FitRaises(xs, nanOk) == xs = <<>> \/ (~nanOk /\ \E i \in 1..Len(xs) : xs[i] = NaN)

(* Lines 48-49 and 135-138: the columns anomaly and anomaly_score *)
Annotate(rows, random_state) ==
    LET s == score_samples(SubSeq([i \in 1..Len(rows) |-> rows[i].x], 1, Len(rows)),
                           random_state)
        labels == fit_predict(s)
    IN SubSeq([i \in 1..Len(rows) |->
                  [ds |-> rows[i].ds, valor_detectado |-> rows[i].valor_detectado,
                   valor_esperado |-> rows[i].valor_esperado, x |-> rows[i].x,
                   anomaly |-> labels[i], anomaly_score |-> 0 - s[i]]],
              1, Len(rows))

(* anomalias_detectadas *)
AnomalousRows(rows) == SelectSeq(rows, LAMBDA r : r.anomaly = -1)

(* The row save_anomaly inserts for one anomalous row *)
AnomalyRecord(tipo, r) ==
    [producto_id |-> 1, tipo_anomalia |-> tipo, valor_detectado |-> r.valor_detectado,
     valor_esperado |-> r.valor_esperado, score_anomalia |-> r.anomaly_score]

(* The sets of anomalous rows, by position, whose save_anomaly may raise *)
FailSets(n) == {f \in SUBSET (1..n) : Cardinality(f) <= MaxSaveFailures}

(* The loop without the try around save_anomaly: the first failure leaves  *)
(* the loop and the function                                               *)
SaveLoop_noInnerTry(tipo, anoms, fails) ==
    LET first == IF fails = {} THEN Len(anoms) + 1
                 ELSE CHOOSE i \in fails : \A j \in fails : i <= j
    IN [saved |-> [j \in 1..(first - 1) |-> AnomalyRecord(tipo, anoms[j])],
        aborted |-> fails # {}]

(* The loop over anomalias_detectadas (lines 53-64, 142-153): every row is *)
(* tried, a failing save_anomaly is logged and the loop goes on            *)
SaveLoop(tipo, anoms, fails) ==
    LET keep == SelectSeq([i \in 1..Len(anoms) |-> i], LAMBDA i : i \notin fails)
    IN [saved |-> [j \in 1..Len(keep) |-> AnomalyRecord(tipo, anoms[keep[j]])],
        aborted |-> FALSE]

(* Returns of the detector: no call yet, (None, None), an exception let    *)
(* out, and the annotated frame                                            *)
NoDet == [set |-> FALSE, none |-> TRUE, raised |-> FALSE, fit |-> FALSE, rows |-> <<>>, failed |-> {}]

NoneDet(fit) == [set |-> TRUE, none |-> TRUE, raised |-> FALSE, fit |-> fit, rows |-> <<>>, failed |-> {}]

RaisedDet(fit) == [set |-> TRUE, none |-> TRUE, raised |-> TRUE, fit |-> fit, rows |-> <<>>, failed |-> {}]

FrameDet(rows, fails) ==
    [set |-> TRUE, none |-> FALSE, raised |-> FALSE, fit |-> TRUE, rows |-> rows, failed |-> fails]

(* The handlers of lines 103-105 and 192-194 *)
OuterExcept(r) == IF r.raised THEN NoneDet(r.fit) ELSE r

(* Lines 107-138 and 51-64 share their second half: fit, annotate, save *)
FitAndSave(tipo, rows, nanOk, random_state, fails) ==
    IF FitRaises([i \in 1..Len(rows) |-> rows[i].x], nanOk)
    THEN [ret |-> RaisedDet(TRUE), saved |-> <<>>]
    ELSE LET annotated == Annotate(rows, random_state)
             loop == SaveLoop(tipo, AnomalousRows(annotated), fails)
         IN [ret |-> IF loop.aborted THEN RaisedDet(TRUE) ELSE FrameDet(annotated, fails),
             saved |-> loop.saved]

(* The test of line 23 with the emptiness test of the inventory path *)
InsufficientData_empty(s, w) == s.none \/ s.rows = <<>>

(* The test of line 23 *)
InsufficientData(s, w) == s.none \/ Len(s.rows) < w

(* Lines 28-41: y, y_smooth and the residual the forest is fitted on *)
SalesRows(rows) ==
    LET y == SubSeq([i \in 1..Len(rows) |-> Fillna0(rows[i].y)], 1, Len(rows))
        y_smooth == Rolling(y)
        residual == Residual(y_smooth)
    IN SubSeq([i \in 1..Len(rows) |->
                  [ds |-> rows[i].ds, valor_detectado |-> y[i], valor_esperado |-> y_smooth[i],
                   x |-> residual[i]]],
              1, Len(rows))

(* detect_sales_anomalies: what it returns and the rows it saves *)
detect_sales_anomalies(s, w, nanOk, random_state, fails) ==
    IF InsufficientData(s, w) THEN [ret |-> NoneDet(FALSE), saved |-> <<>>]
    ELSE IF Len(s.rows) < 2 * Period THEN [ret |-> OuterExcept(RaisedDet(FALSE)), saved |-> <<>>]
    ELSE LET b == FitAndSave("venta", SalesRows(s.rows), nanOk, random_state, fails)
         IN [ret |-> OuterExcept(b.ret), saved |-> b.saved]

(* The result of the query of lines 112-122 for a product with n sales:    *)
(* the product's stock on every row, LEAD gives NULL on the last row       *)
InventoryFrame(n, stock_actual) ==
    [none |-> FALSE,
     rows |-> [i \in 1..n |-> [fecha |-> i, stock_actual |-> stock_actual * Scale,
                               next_stock |-> IF i < n THEN stock_actual * Scale ELSE NaN]]]

(* pd.read_sql raised *)
NoInventory == [none |-> TRUE, rows |-> <<>>]

(* Lines 129-146: stock_change and the values an anomaly is saved with *)
InventoryRows(rows) ==
    [i \in 1..Len(rows) |->
        [ds |-> rows[i].fecha, valor_detectado |-> rows[i].stock_actual,
         valor_esperado |-> rows[i].next_stock,
         x |-> FSub(rows[i].stock_actual, rows[i].next_stock)]]

(* The test of line 124 *)
InventoryEmpty(inv) == inv.rows = <<>>

(* detect_inventory_anomalies: what it returns and the rows it saves *)
detect_inventory_anomalies(inv, nanOk, random_state, fails) ==
    IF inv.none THEN [ret |-> OuterExcept(RaisedDet(FALSE)), saved |-> <<>>]
    ELSE IF InventoryEmpty(inv) THEN [ret |-> NoneDet(FALSE), saved |-> <<>>]
    ELSE LET b == FitAndSave("inventario", InventoryRows(inv.rows), nanOk, random_state, fails)
         IN [ret |-> OuterExcept(b.ret), saved |-> b.saved]

(* random_state of a forest built without a seed *)
RandomStates_unseeded == {41, 42}

(* random_state = 42 *)
RandomStates == {42}

(***************************************************************************)
(* Product clusterer (src/src/clustering.py).                              *)
(***************************************************************************)
MaxRows == 3
MaxCluRuns == 2

(* The slider of the page: min_value = 2, max_value = 10 *)
MinK == 2
MaxK == 10

(* precio_venta of a row of the product frame: a price, or NULL *)
PrecioValues == {NaN, 9 * Scale}

(* The frame the page reads: one row per product that has sales (HAVING    *)
(* COUNT(v.id) > 0), so the ids are not the positions of the rows; the     *)
(* column cluster does not exist yet                                       *)
ProductFrame(precios) ==
    [rows |-> [i \in 1..Len(precios) |->
                  [id |-> 2 * i, precio_venta |-> precios[i], cluster |-> NULL]]]

(* The frame a later run of the page reads: the same products, read again  *)
Reread(df) == ProductFrame([i \in 1..Len(df.rows) |-> df.rows[i].precio_venta])

(* Does prepare_data raise?  StandardScaler refuses a frame without rows,  *)
(* PCA(n_components = 2) a frame of fewer than two rows or with a NaN      *)
PrepareRaises(df) ==
    \/ Len(df.rows) < 2
    \/ \E i \in 1..Len(df.rows) : df.rows[i].precio_venta = NaN

(* What KMeans(n_clusters = k).fit_predict may return for n rows *)
Labelings(n, k) == IF n >= k THEN [1..n -> 0..(k - 1)] ELSE {<<>>}

(* perform_clustering that returns one cluster for all when k-means fails *)
perform_clustering_swallow(n, k, labels) ==
    IF n < k THEN [raised |-> FALSE, clusters |-> [i \in 1..n |-> 0]]
    ELSE [raised |-> FALSE, clusters |-> labels]

(* perform_clustering: KMeans raises when n_samples < n_clusters, and the  *)
(* handler raises again                                                    *)
perform_clustering(n, k, labels) ==
    IF n < k THEN [raised |-> TRUE, clusters |-> <<>>]
    ELSE [raised |-> FALSE, clusters |-> labels]

(* range(1, n_clusters + 1) *)
ClusterIds_from1(k) == [j \in 1..k |-> j]

(* range(self.n_clusters) *)
ClusterIds(k) == [j \in 1..k |-> j - 1]

(* analyze_clusters: the frame gets the column cluster, in place; one      *)
(* entry cluster_<id> per id of the range                                   *)
analyze_clusters(df, clusters, k) ==
    LET rows == [i \in 1..Len(df.rows) |-> [df.rows[i] EXCEPT !.cluster = clusters[i]]]
        ids == ClusterIds(k)
        OfCluster(c) == SelectSeq(rows, LAMBDA r : r.cluster = c)
    IN [df |-> [df EXCEPT !.rows = rows],
        analysis |-> [j \in 1..Len(ids) |->
                         [cluster_id |-> ids[j], size |-> Len(OfCluster(ids[j])),
                          precio_promedio |->
                             Mean([i \in 1..Len(OfCluster(ids[j])) |->
                                      OfCluster(ids[j])[i].precio_venta])]]]

(* save_cluster_results that passes the position of the row as product id *)
save_cluster_results_byIndex(df, clusters, failAt) ==
    LET last == IF failAt = 0 THEN Len(df.rows) ELSE failAt - 1
    IN [raised |-> failAt # 0,
        saved |-> [i \in 1..last |-> [producto_id |-> i, cluster_id |-> clusters[i]]]]

(* save_cluster_results: one save_clustering per row, each its own         *)
(* transaction; the save of row failAt raises (0: none does)               *)
save_cluster_results(df, clusters, failAt) ==
    LET last == IF failAt = 0 THEN Len(df.rows) ELSE failAt - 1
    IN [raised |-> failAt # 0,
        saved |-> [i \in 1..last |-> [producto_id |-> df.rows[i].id, cluster_id |-> clusters[i]]]]

(* Outcomes of a run: none yet, the warning of the page, an error raised   *)
(* by the named step; n_clusters is the slider's value, kmeans_k the       *)
(* n_clusters KMeans was built with (0: it was not)                        *)
NoClu ==
    [set |-> FALSE, warned |-> FALSE, raised |-> FALSE, step |-> "", n_clusters |-> 0,
     kmeans_k |-> 0, clusters |-> <<>>, analysis |-> <<>>]

WarnedClu(k) == [NoClu EXCEPT !.set = TRUE, !.warned = TRUE, !.n_clusters = k]

RaisedClu(step, k, kmeans_k) ==
    [NoClu EXCEPT !.set = TRUE, !.raised = TRUE, !.step = step, !.n_clusters = k,
                  !.kmeans_k = kmeans_k]

(* Lines 219-229: prepare_data, perform_clustering, analyze_clusters,      *)
(* save_cluster_results, with n_clusters = k                               *)
Pipeline(df, k, labels, failAt) ==
    IF PrepareRaises(df) THEN [clu |-> RaisedClu("prepare_data", k, 0), df |-> df, saved |-> <<>>]
    ELSE LET p == perform_clustering(Len(df.rows), k, labels)
         IN IF p.raised
            THEN [clu |-> RaisedClu("perform_clustering", k, k), df |-> df, saved |-> <<>>]
            ELSE LET a == analyze_clusters(df, p.clusters, k)
                     s == save_cluster_results(a.df, p.clusters, failAt)
                 IN [clu |-> [set |-> TRUE, warned |-> FALSE, raised |-> s.raised,
                              step |-> IF s.raised THEN "save_cluster_results" ELSE "",
                              n_clusters |-> k, kmeans_k |-> k, clusters |-> p.clusters,
                              analysis |-> a.analysis],
                     df |-> a.df, saved |-> s.saved]

(* pagina_clustering after the button: the warning for an empty frame,     *)
(* else the pipeline; its handler shows the error a step raised            *)
pagina_clustering(df, k, labels, failAt) ==
    IF df.rows = <<>> THEN [clu |-> WarnedClu(k), df |-> df, saved |-> <<>>]
    ELSE Pipeline(df, k, labels, failAt)

(***************************************************************************)
(* get_product_sales (src/src/database.py) and the pages of src/app.py     *)
(* that sit on top of the three components.                                *)
(***************************************************************************)
MaxAsked == 3
MaxClicks == 4

(* INTERVAL '90 days' of get_product_sales *)
HistoryDays == 90

(* CURRENT_DATE as a day number; every sale of a behaviour is made on it   *)
(* (fecha_venta = CURRENT_TIMESTAMP)                                       *)
Today == 100

(* The rows of the query: generate_series from CURRENT_DATE - 90 days to   *)
(* CURRENT_DATE, left-joined with the product's sales, grouped by day      *)
QueryRows(p) ==
    SubSeq([i \in 1..(HistoryDays + 1) |->
               LET d == Today - HistoryDays + i - 1
               IN [ds |-> d, y |-> IF d = Today THEN SumCantidad(ventas, p) * Scale ELSE 0]],
           1, HistoryDays + 1)

(* The frame of the df.empty branch: date_range over the same days, one    *)
(* draw of np.random.normal(10, 2) clipped below at 0                      *)
Clip0(v) == IF v < 0 THEN 0 ELSE v

SyntheticRows(noise) ==
    SubSeq([i \in 1..(HistoryDays + 1) |->
               [ds |-> Today - HistoryDays + i - 1, y |-> Clip0(noise)]],
           1, HistoryDays + 1)

Draws == {-1 * Scale, 10 * Scale}

NoSeries == [set |-> FALSE, raised |-> FALSE, producto_id |-> 0, frame |-> NoneFrame]

(* get_product_sales: the value returned; a query error is logged and      *)
(* gives None                                                              *)
get_product_sales(p, dbError, noise) ==
    IF dbError THEN [set |-> TRUE, raised |-> FALSE, producto_id |-> p, frame |-> NoneFrame]
    ELSE LET df == QueryRows(p)
         IN [set |-> TRUE, raised |-> FALSE, producto_id |-> p,
             frame |-> HistFrame(TRUE, IF df = <<>> THEN SyntheticRows(noise) ELSE df)]

(***************************************************************************)
(* init_components and the assistant (src/app.py, inventory_assistant.py). *)
(* st.cache_resource keeps one entry per argument list for the whole       *)
(* server, and init_components has no arguments: the first script run of   *)
(* any session creates the components, every later run gets the same       *)
(* objects.  An instance is a number from 1; 0 is the (None, None, None,   *)
(* None) of a failed initialisation.                                       *)
(***************************************************************************)
Chains == {"analysis", "query", "recommendations"}

Instances == 1..NumSessions

(* What init_components returns to a session: the cached value, or on a    *)
(* miss the value its body returns                                         *)
init_components(fail) ==
    IF cache # NULL THEN cache
    ELSE IF fail THEN 0 ELSE 1

(* LLMChain.run with memory = self.memory: the exchange is saved in the    *)
(* memory of the assistant instance                                        *)
ChainRun(s, chain) ==
    [memory EXCEPT ![comp[s]] = Append(@, [session |-> s, chain |-> chain])]

(***************************************************************************)
(* The edit form of the Productos page and the Predicciones page.          *)
(***************************************************************************)
NoForm ==
    [open |-> FALSE, submitted |-> FALSE, producto_id |-> 0, stock_actual |-> 0, sold |-> 0]

(* Products with at least one sale: HAVING COUNT(v.id) > 0 *)
WithSales ==
    {p \in ProductIds : productos[p].exists /\ \E i \in 1..Len(ventas) : ventas[i].producto_id = p}

Dias == {30, 60, 90}

Triggers == {"btn_prediccion", "btn_guardar", "selectbox"}

UiStart ==
    [producto_id |-> 1, dias_prediccion |-> 30, trigger |-> "", shown |-> FALSE, clicks |-> 0,
     save_prediction_calls |-> 0, save_metrics_calls |-> 0]

(* st.button: true only in the run its own click triggered *)
Button(key, trigger) == trigger = key

(* One run of the script on the Predicciones page (lines 987-1122): what   *)
(* is on screen after it, the calls it made and the rows they inserted     *)
RunPredicciones(trigger, p, dias, dbError, saveError) ==
    LET btn_prediccion == Button("btn_prediccion", trigger)
        ventas_historicas == get_product_sales(p, dbError, 0).frame
        prediccion == predict_sales(ventas_historicas, dias)
        shown == /\ btn_prediccion
                 /\ ~ventas_historicas.none
                 /\ ventas_historicas.rows # <<>>
                 /\ ~IsNonePrediction(ventas_historicas, dias)
        btn_guardar == shown /\ Button("btn_guardar", trigger)
    IN [shown |-> shown,
        save_prediction |-> btn_guardar,
        save_metrics |-> btn_guardar /\ ~saveError,
        predicciones |-> IF btn_guardar /\ ~saveError
                         THEN <<[producto_id |-> p,
                                 valor_prediccion |-> Mean(YhatCol(prediccion.rows))]>>
                         ELSE <<>>,
        metricas |-> IF btn_guardar /\ ~saveError
                     THEN <<[producto_id |-> p, stock_optimo |-> 0]>>
                     ELSE <<>>]

(***************************************************************************)
(* Initial states.                                                         *)
(***************************************************************************)
DbInit ==
    /\ productos = [p \in ProductIds |-> IF p = 1 THEN ProductRow(MaxStock) ELSE NoRow]
    /\ stock0 = [p \in ProductIds |-> productos[p].stock_actual]
    /\ ventas = <<>>
    /\ nextVentaId = 1
    /\ nextProductId = 2
    /\ lock = [p \in ProductIds |-> NULL]
    /\ ses = [s \in Sessions |-> IdleSession]
    /\ returned = NoReturn
    /\ calls = 0

UiIdle ==
    /\ series = NoSeries
    /\ cache = NULL
    /\ comp = [s \in Sessions |-> NULL]
    /\ memory = [a \in Instances |-> <<>>]
    /\ asked = 0
    /\ ui = UiStart
    /\ predicciones = <<>>
    /\ metricas = <<>>
    /\ form = NoForm

(* The database the Predicciones page starts on: the first two products    *)
(* have one sale each                                                      *)
PageDbInit ==
    /\ productos = [p \in ProductIds |-> ProductRow(MaxStock - 1)]
    /\ stock0 = [p \in ProductIds |-> MaxStock]
    /\ ventas = <<VentaRow(1, 1, 1, 9), VentaRow(2, 2, 1, 9)>>
    /\ nextVentaId = 3
    /\ nextProductId = MaxProducts + 1
    /\ lock = [p \in ProductIds |-> NULL]
    /\ ses = [s \in Sessions |-> IdleSession]
    /\ returned = NoReturn
    /\ calls = 0

PredIdle ==
    /\ hist = NoneFrame
    /\ periods = 0
    /\ forecast = UnsetForecast
    /\ metrics = [res |-> UnsetMetrics, forecast |-> UnsetForecast, hist |-> NoneFrame]

YValues == {k * Scale : k \in 0..MaxY} \cup {BadStr}

YSeqs == UNION {[1..n -> YValues] : n \in 0..MaxLen}

(* A dense daily frame: pad leading days of zero sales, then the free rows *)
DenseRows(ds0, pad, ys) ==
    [i \in 1..(pad + Len(ys)) |->
        [ds |-> ds0 + i - 1, y |-> IF i <= pad THEN 0 ELSE ys[i - pad]]]

(* The leading days of zero sales of a history: none, a few, or for a      *)
(* product that never sold the whole window of get_product_sales           *)
Pads(ys) == IF ys = <<>> THEN {0, MaxPad, HistoryDays} ELSE {0, MaxPad}

PredInit ==
    /\ \E ys \in YSeqs, ds0 \in {0, 4}, ok \in BOOLEAN, isNone \in BOOLEAN :
          \E pad \in Pads(ys) :
          hist = IF isNone THEN NoneFrame ELSE HistFrame(ok, DenseRows(ds0, pad, ys))
    /\ periods \in (-1)..MaxPeriods
    /\ forecast = UnsetForecast
    /\ metrics = [res |-> UnsetMetrics, forecast |-> UnsetForecast, hist |-> NoneFrame]

AnomIdle ==
    /\ sales_data = NoneFrame
    /\ window_size = DefaultWindow
    /\ inventory_data = NoInventory
    /\ forestNaN = FALSE
    /\ anomalias = <<>>
    /\ det = [t \in Tipos |-> NoDet]
    /\ detPrev = [t \in Tipos |-> NoDet]
    /\ runs = [t \in Tipos |-> 0]

ClustIdle ==
    /\ productos_df = ProductFrame(<<>>)
    /\ clustering = <<>>
    /\ clu = NoClu
    /\ cluRuns = 0

SalesSeqs == UNION {[1..n -> {k * Scale : k \in 0..MaxY}] : n \in 0..AnomLen}

(* Either the sales series or the inventory query of the product varies:   *)
(* a dense daily series as get_product_sales builds it, or None; the rows  *)
(* of the inventory join for 0..MaxInv sales, or a failed query            *)
AnomInit ==
    /\ \/ /\ \E ys \in SalesSeqs, pad \in {0, DefaultWindow - AnomLen}, isNone \in BOOLEAN :
                sales_data = IF isNone THEN NoneFrame ELSE HistFrame(TRUE, DenseRows(0, pad, ys))
          /\ window_size \in {SmallWindow, DefaultWindow}
          /\ inventory_data = NoInventory
          /\ forestNaN = FALSE
       \/ /\ sales_data = NoneFrame
          /\ window_size = DefaultWindow
          /\ \E n \in 0..MaxInv, err \in BOOLEAN :
                inventory_data = IF err THEN NoInventory ELSE InventoryFrame(n, MaxStock)
          /\ forestNaN \in BOOLEAN
    /\ anomalias = <<>>
    /\ det = [t \in Tipos |-> NoDet]
    /\ detPrev = [t \in Tipos |-> NoDet]
    /\ runs = [t \in Tipos |-> 0]

ClustInit ==
    /\ \E precios \in UNION {[1..n -> PrecioValues] : n \in 0..MaxRows} :
          productos_df = ProductFrame(precios)
    /\ clustering = <<>>
    /\ clu = NoClu
    /\ cluRuns = 0

(***************************************************************************)
(* Forecaster actions: the Predicciones page calls predict_sales and then  *)
(* calculate_metrics; calculate_metrics is also exercised with forecasts   *)
(* that did not come from predict_sales.                                   *)
(***************************************************************************)
PredictSales ==
    /\ ~forecast.set
    /\ forecast' = predict_sales(hist, periods)
    /\ hist' = HistAfterPredict(hist)
    /\ UNCHANGED <<periods, metrics>>
    /\ UNCHANGED <<dbVars, anomVars, clustVars, uiVars, editVars>>

CalculateMetrics(fc) ==
    /\ ~metrics.res.set
    /\ metrics' = [res |-> calculate_metrics(fc, hist), forecast |-> fc, hist |-> hist]
    /\ hist' = HistAfterMetrics(fc, hist)
    /\ UNCHANGED <<periods, forecast>>
    /\ UNCHANGED <<dbVars, anomVars, clustVars, uiVars, editVars>>

(***************************************************************************)
(* Detector actions: one call of detect_sales_anomalies or of              *)
(* detect_inventory_anomalies, as the Anomalias page makes them; any of    *)
(* the save_anomaly calls of the run may raise.                            *)
(***************************************************************************)
DetectSales ==
    /\ runs["venta"] + runs["inventario"] < MaxRuns
    /\ \E random_state \in RandomStates :
          \E fails \in FailSets(Len(AnomalousRows(
                 detect_sales_anomalies(sales_data, window_size, forestNaN,
                                        random_state, {}).ret.rows))) :
             LET r == detect_sales_anomalies(sales_data, window_size, forestNaN,
                                             random_state, fails)
             IN /\ det' = [det EXCEPT !["venta"] = r.ret]
                /\ detPrev' = [detPrev EXCEPT !["venta"] = det["venta"]]
                /\ anomalias' = anomalias \o r.saved
    /\ runs' = [runs EXCEPT !["venta"] = @ + 1]
    /\ UNCHANGED <<sales_data, window_size, inventory_data, forestNaN>>
    /\ UNCHANGED <<dbVars, predVars, clustVars, uiVars, editVars>>

DetectInventory ==
    /\ runs["venta"] + runs["inventario"] < MaxRuns
    /\ \E random_state \in RandomStates :
          \E fails \in FailSets(Len(AnomalousRows(
                 detect_inventory_anomalies(inventory_data, forestNaN,
                                            random_state, {}).ret.rows))) :
             LET r == detect_inventory_anomalies(inventory_data, forestNaN, random_state, fails)
             IN /\ det' = [det EXCEPT !["inventario"] = r.ret]
                /\ detPrev' = [detPrev EXCEPT !["inventario"] = det["inventario"]]
                /\ anomalias' = anomalias \o r.saved
    /\ runs' = [runs EXCEPT !["inventario"] = @ + 1]
    /\ UNCHANGED <<sales_data, window_size, inventory_data, forestNaN>>
    /\ UNCHANGED <<dbVars, predVars, clustVars, uiVars, editVars>>

(***************************************************************************)
(* Clusterer actions: the button of the Clustering page with the slider at *)
(* k, and the same four calls made by a caller without the page's test for *)
(* an empty frame.                                                         *)
(***************************************************************************)
PaginaClustering ==
    /\ ~clu.set
    /\ \E k \in MinK..MaxK :
          \E labels \in Labelings(Len(productos_df.rows), k), failAt \in 0..Len(productos_df.rows) :
             LET r == pagina_clustering(productos_df, k, labels, failAt)
             IN /\ clu' = r.clu
                /\ productos_df' = r.df
                /\ clustering' = clustering \o r.saved
    /\ cluRuns' = cluRuns + 1
    /\ UNCHANGED <<dbVars, predVars, anomVars, uiVars, editVars>>

ClustererCalls ==
    /\ ~clu.set
    /\ \E k \in MinK..MaxK :
          \E labels \in Labelings(Len(productos_df.rows), k), failAt \in 0..Len(productos_df.rows) :
             LET r == Pipeline(productos_df, k, labels, failAt)
             IN /\ clu' = r.clu
                /\ productos_df' = r.df
                /\ clustering' = clustering \o r.saved
    /\ cluRuns' = cluRuns + 1
    /\ UNCHANGED <<dbVars, predVars, anomVars, uiVars, editVars>>

(* The button pressed again with the slider untouched: the script reruns,  *)
(* reads the same products again, and k-means, seeded with random_state =  *)
(* 42, returns the labels it returned before; save_clustering only inserts *)
Recluster ==
    /\ clu.set
    /\ cluRuns < MaxCluRuns
    /\ \E failAt \in 0..Len(productos_df.rows) :
          LET r == pagina_clustering(Reread(productos_df), clu.n_clusters, clu.clusters, failAt)
          IN /\ clu' = r.clu
             /\ productos_df' = r.df
             /\ clustering' = clustering \o r.saved
    /\ cluRuns' = cluRuns + 1
    /\ UNCHANGED <<dbVars, predVars, anomVars, uiVars, editVars>>

(***************************************************************************)
(* get_product_sales called once.  The query runs on a connection of its   *)
(* own and sees committed rows only, so a call made while a sale is in     *)
(* flight returns what a call made before that sale began returns: the     *)
(* call is taken between the sales.                                        *)
(***************************************************************************)
GetProductSales ==
    /\ ~series.set
    /\ \A s \in Sessions : ses[s].pc = "idle"
    /\ \E p \in ProductIds, dbError \in BOOLEAN, noise \in Draws :
          series' = get_product_sales(p, dbError, noise)
    /\ UNCHANGED <<cache, comp, memory, asked, ui, predicciones, metricas>>
    /\ UNCHANGED <<dbVars, predVars, anomVars, clustVars, editVars>>

(***************************************************************************)
(* Sessions of the application: the first script run of a session calls    *)
(* init_components; on the Asistente page the three buttons call the       *)
(* assistant, whose chain may fail before anything is saved.               *)
(***************************************************************************)
InitComponents(s) ==
    /\ comp[s] = NULL
    /\ \E fail \in BOOLEAN :
          /\ comp' = [comp EXCEPT ![s] = init_components(fail)]
          /\ cache' = init_components(fail)
    /\ UNCHANGED <<series, memory, asked, ui, predicciones, metricas>>
    /\ UNCHANGED <<dbVars, predVars, anomVars, clustVars, editVars>>

AssistantCall(s, chain) ==
    /\ comp[s] \in Instances
    /\ asked < MaxAsked
    /\ asked' = asked + 1
    /\ \E ran \in BOOLEAN : memory' = IF ran THEN ChainRun(s, chain) ELSE memory
    /\ UNCHANGED <<series, cache, comp, ui, predicciones, metricas>>
    /\ UNCHANGED <<dbVars, predVars, anomVars, clustVars, editVars>>

get_inventory_insights(s) == AssistantCall(s, "analysis")

answer_query(s) == AssistantCall(s, "query")

get_recommendations(s) == AssistantCall(s, "recommendations")

(***************************************************************************)
(* The edit form: a script run reads the product and fills the form; the   *)
(* submit calls update_product with the values of the form, the stock      *)
(* field left as it was filled.                                            *)
(***************************************************************************)
FormRead(p) ==
    /\ ~form.open
    /\ ~form.submitted
    /\ productos[p].exists
    /\ form' = [open |-> TRUE, submitted |-> FALSE, producto_id |-> p,
                stock_actual |-> productos[p].stock_actual, sold |-> SumCantidad(ventas, p)]
    /\ UNCHANGED <<dbVars, predVars, anomVars, clustVars, uiVars>>

FormSubmit(s) ==
    /\ form.open
    /\ \E dbError \in BOOLEAN : update_product(s, form.producto_id, form.stock_actual, dbError)
    /\ form' = [form EXCEPT !.open = FALSE, !.submitted = returned'.status = "ok"]

(***************************************************************************)
(* The Predicciones page: a click or a change of a select box triggers a   *)
(* run of the script.                                                      *)
(***************************************************************************)
Click(b) ==
    /\ ui.trigger = ""
    /\ ui.clicks < MaxClicks
    /\ ui.producto_id \in WithSales
    /\ b = "btn_guardar" => ui.shown
    /\ ui' = [ui EXCEPT !.trigger = b, !.clicks = @ + 1]
    /\ UNCHANGED <<series, cache, comp, memory, asked, predicciones, metricas>>
    /\ UNCHANGED <<dbVars, predVars, anomVars, clustVars, editVars>>

Select(p, dias) ==
    /\ ui.trigger = ""
    /\ ui.clicks < MaxClicks
    /\ p \in WithSales
    /\ <<p, dias>> # <<ui.producto_id, ui.dias_prediccion>>
    /\ ui' = [ui EXCEPT !.trigger = "selectbox", !.clicks = @ + 1,
                        !.producto_id = p, !.dias_prediccion = dias]
    /\ UNCHANGED <<series, cache, comp, memory, asked, predicciones, metricas>>
    /\ UNCHANGED <<dbVars, predVars, anomVars, clustVars, editVars>>

ScriptRun ==
    /\ ui.trigger # ""
    /\ \E dbError \in BOOLEAN, saveError \in BOOLEAN :
          LET r == RunPredicciones(ui.trigger, ui.producto_id, ui.dias_prediccion,
                                   dbError, saveError)
          IN /\ ui' = [ui EXCEPT !.trigger = "", !.shown = r.shown,
                                 !.save_prediction_calls = @ + (IF r.save_prediction THEN 1 ELSE 0),
                                 !.save_metrics_calls = @ + (IF r.save_metrics THEN 1 ELSE 0)]
             /\ predicciones' = predicciones \o r.predicciones
             /\ metricas' = metricas \o r.metricas
    /\ UNCHANGED <<series, cache, comp, memory, asked>>
    /\ UNCHANGED <<dbVars, predVars, anomVars, clustVars, editVars>>

(***************************************************************************)
(* Specifications.                                                         *)
(***************************************************************************)
RegisterSaleNext ==
    \/ \E s \in Sessions, p \in ProductIds, q \in Quantities, pr \in Prices : RS_Call(s, p, q, pr)
    \/ \E s \in Sessions : RS_Select(s)
    \/ \E s \in Sessions : RS_Validate(s)
    \/ \E s \in Sessions : RS_Insert(s)
    \/ \E s \in Sessions : RS_Update(s)
    \/ \E s \in Sessions : RS_Commit(s)
    \/ \E s \in Sessions : RS_DbError(s)

Init == DbInit /\ PredIdle /\ AnomIdle /\ ClustIdle /\ UiIdle

Next ==
    \/ RegisterSaleNext
    \/ \E s \in Sessions, st \in StockValues, e \in BOOLEAN : add_product(s, st, e)
    \/ \E s \in Sessions, p \in ProductIds, st \in StockValues, e \in BOOLEAN :
          update_product(s, p, st, e) /\ UNCHANGED editVars

Spec == Init /\ [][Next]_vars

(* Only register_sale is called *)
SpecSales == Init /\ [][RegisterSaleNext]_vars

PredStart == DbInit /\ PredInit /\ AnomIdle /\ ClustIdle /\ UiIdle

PredNext ==
    \/ PredictSales
    \/ \E fc \in {forecast, NoneForecast, EmptyDataFrame, OtherForecast} : CalculateMetrics(fc)

SpecPred == PredStart /\ [][PredNext]_vars

AnomStart == DbInit /\ PredIdle /\ AnomInit /\ ClustIdle /\ UiIdle

AnomNext == DetectSales \/ DetectInventory

SpecAnom == AnomStart /\ [][AnomNext]_vars

ClustStart == DbInit /\ PredIdle /\ AnomIdle /\ ClustInit /\ UiIdle

ClustNext == PaginaClustering \/ ClustererCalls

SpecClust == ClustStart /\ [][ClustNext]_vars

ReclusterNext == ClustNext \/ Recluster

SpecRecluster == ClustStart /\ [][ReclusterNext]_vars

SeriesNext == RegisterSaleNext \/ GetProductSales

SpecSeries == Init /\ [][SeriesNext]_vars

AssistNext ==
    \/ \E s \in Sessions : InitComponents(s)
    \/ \E s \in Sessions : get_inventory_insights(s)
    \/ \E s \in Sessions : answer_query(s)
    \/ \E s \in Sessions : get_recommendations(s)

SpecAssist == Init /\ [][AssistNext]_vars

(* Sales as the Ventas page makes them: number_input with min_value = 1 *)
PageSaleNext ==
    \/ \E s \in Sessions, p \in ProductIds, q \in 1..MaxQty, pr \in Prices : RS_Call(s, p, q, pr)
    \/ \E s \in Sessions : RS_Select(s)
    \/ \E s \in Sessions : RS_Validate(s)
    \/ \E s \in Sessions : RS_Insert(s)
    \/ \E s \in Sessions : RS_Update(s)
    \/ \E s \in Sessions : RS_Commit(s)
    \/ \E s \in Sessions : RS_DbError(s)

EditNext ==
    \/ PageSaleNext
    \/ \E p \in ProductIds : FormRead(p)
    \/ \E s \in Sessions : FormSubmit(s)

SpecEdit == Init /\ [][EditNext]_vars

PageStart == PageDbInit /\ PredIdle /\ AnomIdle /\ ClustIdle /\ UiIdle

PageNext ==
    \/ \E b \in {"btn_prediccion", "btn_guardar"} : Click(b)
    \/ \E p \in ProductIds, dias \in Dias : Select(p, dias)
    \/ ScriptRun

SpecPage == PageStart /\ [][PageNext]_vars

(* Streamlit runs the script after every widget event *)
LivePage == SpecPage /\ WF_vars(ScriptRun)

(***************************************************************************)
(* Properties of the data layer.                                           *)
(***************************************************************************)
InTransaction(s) == ses[s].pc \in {"validate", "insert", "update", "commit"}

SaleOf(s) == VentaRow(ses[s].venta_id, ses[s].producto_id, ses[s].cantidad, ses[s].precio_venta)

(* C1: a register_sale transaction that read stock S of an existing product *)
(* with Q <= S never raises a validation error; unless the database itself  *)
(* fails, each of its steps leads to the next statement, and its last step  *)
(* returns the new sale id, appends exactly the row (id, product, Q, price) *)
(* to ventas and leaves the product's stock at exactly S - Q.               *)
C1_SaleSucceeds ==
    [][\A s \in Sessions :
          (/\ InTransaction(s)
           /\ ses[s].stock_actual # NULL
           /\ ses[s].cantidad <= ses[s].stock_actual
           /\ ses'[s] # ses[s])
          => \/ ses'[s].pc \in {"insert", "update", "commit"}
             \/ returned'.session = s /\ returned'.status = "Exception"
             \/ /\ ses[s].pc = "commit"
                /\ returned'.session = s
                /\ returned'.status = "ok"
                /\ returned'.value = ses[s].venta_id
                /\ ventas' = Append(ventas, SaleOf(s))
                /\ productos' = [productos EXCEPT ![ses[s].producto_id].stock_actual =
                                     ses[s].stock_actual - ses[s].cantidad]]_vars

(* A sale of Q >= 1 units with Q <= S has just returned its id *)
C1_Witness ==
    /\ returned.op = "register_sale"
    /\ returned.status = "ok"
    /\ returned.cantidad >= 1
    /\ returned.cantidad <= returned.stock_actual
    /\ \E i \in 1..Len(ventas) : ventas[i].id = returned.value

(* C2: a register_sale that read stock S of an existing product with Q > S  *)
(* raises the stock-insufficient ValueError, and that step leaves the       *)
(* product rows and the sale rows as they were; no transaction with Q > S   *)
(* ever gets to its INSERT or UPDATE.                                       *)
C2_InsufficientStockRaises ==
    [][\A s \in Sessions :
          /\ (/\ ses[s].pc = "validate"
              /\ ses[s].stock_actual # NULL
              /\ ses[s].cantidad > ses[s].stock_actual
              /\ ses'[s] # ses[s])
             => /\ returned'.session = s
                /\ returned'.status = "ValueError"
                /\ returned'.msg = "Stock insuficiente"
                /\ ses'[s].pc = "idle"
                /\ productos' = productos
                /\ ventas' = ventas
          /\ ses'[s].pc \in {"insert", "update", "commit"}
             => ses'[s].cantidad <= ses'[s].stock_actual]_vars

(* A sale asking for more than the stock has just been refused *)
C2_Witness ==
    /\ returned.op = "register_sale"
    /\ returned.status = "ValueError"
    /\ returned.msg = "Stock insuficiente"
    /\ returned.cantidad > returned.stock_actual
    /\ productos[returned.producto_id].stock_actual = returned.stock_actual

(* C3: under every interleaving of register_sale transactions, at most one  *)
(* transaction at a time is between its SELECT ... FOR UPDATE and its end   *)
(* on a given product, the stock of a product is never negative, and the    *)
(* committed sales of a product never add up to more than its initial stock *)
C3_NoOverselling ==
    /\ \A s1 \in Sessions, s2 \in Sessions :
          (/\ s1 # s2
           /\ InTransaction(s1) /\ ses[s1].stock_actual # NULL
           /\ InTransaction(s2) /\ ses[s2].stock_actual # NULL)
          => ses[s1].producto_id # ses[s2].producto_id
    /\ \A p \in ProductIds :
          productos[p].exists =>
             /\ productos[p].stock_actual >= 0
             /\ SumCantidad(ventas, p) <= stock0[p]

(* Two sales of the same product are in flight, each asks for at least one  *)
(* unit, together for more than the stock; one holds the row, one waits     *)
C3_Witness ==
    \E s1 \in Sessions, s2 \in Sessions :
       /\ s1 # s2
       /\ ses[s1].pc \in {"insert", "update", "commit"}
       /\ ses[s2].pc = "select"
       /\ ses[s1].producto_id = ses[s2].producto_id
       /\ ses[s1].cantidad >= 1
       /\ ses[s2].cantidad >= 1
       /\ ses[s1].cantidad + ses[s2].cantidad > productos[ses[s1].producto_id].stock_actual

(* C4: in every state reached by register_sale calls alone, for every       *)
(* product the stock taken off since the initial state equals the sum of    *)
(* the quantities of its sale rows                                          *)
C4_Atomic ==
    \A p \in ProductIds :
       IF productos[p].exists
       THEN stock0[p] - productos[p].stock_actual = SumCantidad(ventas, p)
       ELSE SumCantidad(ventas, p) = 0

(* A transaction was rolled back after its INSERT (its id is missing from   *)
(* ventas) while another sale is committed                                  *)
C4_Witness ==
    /\ returned.op = "register_sale"
    /\ returned.status = "Exception"
    /\ Len(ventas) >= 1
    /\ nextVentaId > Len(ventas) + 1
    /\ \E i \in 1..Len(ventas) : ventas[i].cantidad >= 1

(* C5: whenever register_sale, add_product or update_product returns        *)
(* normally its change is in the tables, and whenever it does not commit    *)
(* it raises and the product rows and sale rows are as before the step      *)
C5_NoSilentFailure ==
    [][returned'.session # 0 =>
          \/ /\ returned'.status = "ok"
             /\ returned'.op = "register_sale"
             /\ ventas' = Append(ventas, VentaRow(returned'.value, returned'.producto_id,
                                                  returned'.cantidad, returned'.precio_venta))
             /\ productos' = [productos EXCEPT ![returned'.producto_id].stock_actual =
                                  returned'.stock_actual - returned'.cantidad]
          \/ /\ returned'.status = "ok"
             /\ returned'.op = "add_product"
             /\ ~productos[returned'.value].exists
             /\ productos' = [productos EXCEPT ![returned'.value] =
                                  ProductRow(returned'.stock_actual)]
             /\ ventas' = ventas
          \/ /\ returned'.status = "ok"
             /\ returned'.op = "update_product"
             /\ productos[returned'.producto_id].exists
             /\ productos' = [productos EXCEPT ![returned'.producto_id] =
                                  ProductRow(returned'.stock_actual)]
             /\ ventas' = ventas
          \/ /\ returned'.status \in {"ValueError", "Exception"}
             /\ productos' = productos
             /\ ventas' = ventas]_vars

(* update_product on an id that matches no row has just raised *)
C5_Witness ==
    /\ returned.op = "update_product"
    /\ returned.status = "Exception"
    /\ ~productos[returned.producto_id].exists

(***************************************************************************)
(* Properties of the forecaster.                                           *)
(***************************************************************************)
RowOrdered(r) ==
    /\ FLe(r.yhat_lower, r.yhat)
    /\ FLe(r.yhat, r.yhat_upper)
    /\ FLe(0, r.yhat_lower)
    /\ FLe(0, r.yhat)
    /\ FLe(0, r.yhat_upper)

(* C6: every row of a forecast returned by predict_sales has                *)
(* yhat_lower <= yhat <= yhat_upper and all three >= 0, whatever the        *)
(* history, single-row histories included                                   *)
C6_ForecastBounds ==
    (forecast.set /\ ~forecast.none) =>
       \A i \in 1..Len(forecast.rows) : RowOrdered(forecast.rows[i])

(* C7: predict_sales returns None, and does not raise, when the history is  *)
(* None or has no rows                                                      *)
C7_NullOnAbsentHistory ==
    (forecast.set /\ (hist.none \/ hist.rows = <<>>)) =>
       (forecast.none /\ ~forecast.raised)

(* predict_sales has been called with None *)
C7_Witness == forecast.set /\ hist.none /\ forecast.none

C9_StockOrdered ==
    (metrics.res.set /\ ~metrics.res.raised) =>
       /\ FLt(metrics.res.min_stock, metrics.res.optimal_stock)
       /\ FLt(metrics.res.optimal_stock, metrics.res.max_stock)

(* A recommendation of the normal path, above the floors *)
C9_Witness ==
    /\ metrics.res.set
    /\ ~metrics.res.default
    /\ metrics.res.min_stock > 15 * Scale

(* The history has rows of zero sales only, or no rows at all *)
NoSales(h) == ~h.none /\ \A i \in 1..Len(h.rows) : h.rows[i].y = 0

(* C10 as stated: with no sales in the history the recommendation is        *)
(* min = 1, optimal = 3, max = 5                                            *)
C10_Defaults135 ==
    (metrics.res.set /\ NoSales(metrics.hist)) =>
       /\ metrics.res.min_stock = 1 * Scale
       /\ metrics.res.optimal_stock = 3 * Scale
       /\ metrics.res.max_stock = 5 * Scale

(* C10 amended: with no sales in the history, and the forecast being what   *)
(* predict_sales returned for that history, the recommendation is           *)
(* min = 15, optimal = 30, max = 45                                         *)
C10_Defaults153045 ==
    (metrics.res.set /\ forecast.set /\ metrics.forecast = forecast /\ NoSales(metrics.hist)) =>
       /\ metrics.res.min_stock = 15 * Scale
       /\ metrics.res.optimal_stock = 30 * Scale
       /\ metrics.res.max_stock = 45 * Scale

(* Metrics of the normal path for a forecast of a history of zero sales *)
C10_Witness ==
    /\ metrics.res.set
    /\ forecast.set
    /\ metrics.forecast = forecast
    /\ NoSales(metrics.hist)
    /\ Len(metrics.hist.rows) >= 2
    /\ Len(forecast.rows) >= 1
    /\ ~metrics.res.default

(* The rows of a history whose y is a number *)
NumericDs(h) == {h.rows[i].ds : i \in {k \in 1..Len(h.rows) : h.rows[k].y \notin {NaN, BadStr}}}

LastNumericDs(h) == CHOOSE d \in NumericDs(h) : \A e \in NumericDs(h) : e <= d

ForecastDs == {forecast.rows[j].ds : j \in 1..Len(forecast.rows)}

(* C11 as stated: the frame predict_sales returns has one row for every     *)
(* date of the history and one for each of the periods days after the last  *)
(* historical date, and no date twice                                       *)
C11_CoversHistory ==
    (forecast.set /\ ~forecast.none) =>
       /\ \A i \in 1..Len(hist.rows) : hist.rows[i].ds \in ForecastDs
       /\ \A d \in 1..periods : LastNumericDs(hist) + d \in ForecastDs
       /\ Cardinality(ForecastDs) = Len(forecast.rows)

(* C11 amended: the frame predict_sales returns has exactly periods rows,   *)
(* the j-th being day j after the last date of the history that has a       *)
(* numeric y; it has no row for any date up to that last date               *)
C11_FutureOnly ==
    (forecast.set /\ ~forecast.none) =>
       /\ Len(forecast.rows) = periods
       /\ \A j \in 1..Len(forecast.rows) : forecast.rows[j].ds = LastNumericDs(hist) + j
       /\ \A d \in ForecastDs : d > LastNumericDs(hist)

(* A forecast of two days or more from a history of two days or more *)
C11_Witness ==
    /\ forecast.set
    /\ ~forecast.none
    /\ Len(forecast.rows) >= 2
    /\ Cardinality(NumericDs(hist)) >= 2
    /\ forecast.rows[1].ds = hist.rows[Len(hist.rows)].ds + 1

(* C12 as stated: trend_change is the percentage change from the first to   *)
(* the last forecast point, and 0 when the first forecast point is 0        *)
C12_FirstToLast ==
    (metrics.res.set /\ ~metrics.res.default /\ metrics.forecast.rows # <<>>) =>
       LET ys == YhatCol(metrics.forecast.rows)
           first == ys[1]
           last == ys[Len(ys)]
       IN metrics.res.trend_change =
             IF first = 0 THEN 0 ELSE FTimes(FDiv(FSub(last, first), first), 100)

(* C12 amended: trend_change is the percentage by which the mean of the     *)
(* last 30 forecast values differs from the mean of the last 30 historical  *)
(* values; it is exactly 0 whenever that historical mean is not a positive  *)
(* number or the defaults are returned, so the division is only ever by a   *)
(* positive number; it is NaN only for a forecast without rows              *)
C12_TrendChange ==
    metrics.res.set =>
       LET pred == Mean(Tail30(YhatCol(metrics.forecast.rows)))
           prev == Mean(Tail30(YCol(metrics.hist.rows)))
       IN /\ metrics.res.default => metrics.res.trend_change = 0
          /\ (~metrics.res.default /\ ~FGt(prev, 0)) => metrics.res.trend_change = 0
          /\ (~metrics.res.default /\ FGt(prev, 0)) =>
                metrics.res.trend_change = FTimes(FDiv(FSub(pred, prev), prev), 100)
          /\ metrics.res.trend_change = NaN => metrics.forecast.rows = <<>>

(* Metrics of the normal path whose forecast mean is above the historical   *)
(* mean although the forecast is flat                                       *)
C12_Witness ==
    /\ metrics.res.set
    /\ ~metrics.res.default
    /\ metrics.forecast.rows # <<>>
    /\ FGt(metrics.res.trend_change, 0)
    /\ YhatCol(metrics.forecast.rows)[1] =
          YhatCol(metrics.forecast.rows)[Len(metrics.forecast.rows)]

(***************************************************************************)
(* Properties of the anomaly detector.                                     *)
(***************************************************************************)
SavedOf(tipo) == SelectSeq(anomalias, LAMBDA a : a.tipo_anomalia = tipo)

(* C13: when the series get_product_sales returned is None or has fewer    *)
(* rows than window_size, detect_sales_anomalies returns (None, None)      *)
(* without raising and no sales anomaly is ever saved                      *)
C13_NullBelowWindow ==
    (sales_data.none \/ Len(sales_data.rows) < window_size) =>
       /\ det["venta"].set => (det["venta"].none /\ ~det["venta"].raised)
       /\ SavedOf("venta") = <<>>

(* A series one day short of the default window was analysed *)
C13_Witness ==
    /\ det["venta"].set
    /\ ~sales_data.none
    /\ window_size = DefaultWindow
    /\ Len(sales_data.rows) = DefaultWindow - 1
    /\ \E i \in 1..Len(sales_data.rows) : sales_data.rows[i].y > 0

CannotRun(t) ==
    IF t = "venta"
    THEN \/ sales_data.none
         \/ Len(sales_data.rows) < window_size
         \/ Len(sales_data.rows) < 2 * Period
    ELSE \/ inventory_data.none
         \/ inventory_data.rows = <<>>
         \/ (~forestNaN /\ \E i \in 1..Len(inventory_data.rows) :
                              inventory_data.rows[i].next_stock = NaN)

InputLen(t) == IF t = "venta" THEN Len(sales_data.rows) ELSE Len(inventory_data.rows)

(* C15: a call of the detector never raises; it returns (None, None)       *)
(* exactly when its data is missing or too short or the decomposition or   *)
(* the fit fails; otherwise, whichever save_anomaly calls raise, it        *)
(* returns one annotated row per input row, the same rows as the call      *)
(* before it, and every anomalous row whose save did not raise is saved    *)
C15_NoEscape ==
    [][\A t \in Tipos :
          runs'[t] # runs[t] =>
             /\ det'[t].set
             /\ ~det'[t].raised
             /\ det'[t].none <=> CannotRun(t)
             /\ ~det'[t].none =>
                   LET anoms == AnomalousRows(det'[t].rows)
                       new == SubSeq(anomalias', Len(anomalias) + 1, Len(anomalias'))
                   IN /\ Len(det'[t].rows) = InputLen(t)
                      /\ (det[t].set /\ ~det[t].none) => det'[t].rows = det[t].rows
                      /\ SubSeq(anomalias', 1, Len(anomalias)) = anomalias
                      /\ Len(new) = Len(anoms) - Cardinality(det'[t].failed)
                      /\ \A i \in 1..Len(anoms) :
                            i \notin det'[t].failed =>
                               \E j \in 1..Len(new) :
                                  /\ new[j].tipo_anomalia = t
                                  /\ new[j].valor_detectado = anoms[i].valor_detectado
                                  /\ new[j].valor_esperado = anoms[i].valor_esperado
                                  /\ new[j].score_anomalia = anoms[i].anomaly_score]_vars

(* The save of the first of several anomalous rows raised, the rows after  *)
(* it were saved and the annotated series was returned                     *)
C15_Witness ==
    \E t \in Tipos :
       /\ det[t].set
       /\ ~det[t].none
       /\ Len(AnomalousRows(det[t].rows)) >= 2
       /\ det[t].failed = {1}
       /\ runs[t] = 1
       /\ Len(anomalias) = Len(AnomalousRows(det[t].rows)) - 1

(* C16: a step of predict_sales, calculate_metrics, of a detector or of    *)
(* the clustering run leaves the tables productos, ventas and anomalias    *)
(* and the frames it was given as they were                                *)
C16_SideEffectFree ==
    [][(forecast' # forecast \/ metrics' # metrics \/ runs' # runs \/ clu' # clu) =>
          /\ productos' = productos
          /\ ventas' = ventas
          /\ anomalias' = anomalias
          /\ hist' = hist
          /\ sales_data' = sales_data
          /\ inventory_data' = inventory_data
          /\ productos_df' = productos_df]_vars

C18_ClampedK ==
    (clu.set /\ clu.kmeans_k > 0) => clu.kmeans_k <= Len(productos_df.rows) - 1

(* C19: in a run with k <= n - 1 that got its labels, every product has    *)
(* one cluster id in 0..k-1, the analysis has exactly the k entries        *)
(* cluster_0 .. cluster_(k-1), and their sizes add up to n                 *)
C19_Partition ==
    (clu.set /\ clu.clusters # <<>> /\ clu.kmeans_k <= Len(productos_df.rows) - 1) =>
       LET n == Len(productos_df.rows)
           k == clu.kmeans_k
       IN /\ Len(clu.clusters) = n
          /\ \A i \in 1..n :
                /\ clu.clusters[i] \in 0..(k - 1)
                /\ productos_df.rows[i].cluster = clu.clusters[i]
          /\ Len(clu.analysis) = k
          /\ \A c \in 0..(k - 1) :
                Cardinality({j \in 1..Len(clu.analysis) : clu.analysis[j].cluster_id = c}) = 1
          /\ SumSeq([j \in 1..Len(clu.analysis) |-> clu.analysis[j].size]) = n

(* Three products in two clusters, none of them empty *)
C19_Witness ==
    /\ clu.set
    /\ ~clu.raised
    /\ clu.kmeans_k = 2
    /\ Len(productos_df.rows) = 3
    /\ \A j \in 1..Len(clu.analysis) : clu.analysis[j].size >= 1

(* C20: when the frame has no rows, or prepare_data or perform_clustering  *)
(* fails (fewer than two rows, a NaN feature, fewer rows than clusters),   *)
(* the run ends with the error raised, or for the page with its warning    *)
(* for an empty frame; no labels, no analysis, no cluster column and no    *)
(* saved assignment come out of it; and a run that ends without an error   *)
(* has saved the assignment of every product                               *)
C20_RaisesNotSwallows ==
    clu.set =>
       LET n == Len(productos_df.rows) IN
       /\ (\/ n < 2
           \/ \E i \in 1..n : productos_df.rows[i].precio_venta = NaN
           \/ n < clu.n_clusters)
          => /\ clu.raised \/ (clu.warned /\ n = 0)
             /\ clu.clusters = <<>>
             /\ clu.analysis = <<>>
             /\ clustering = <<>>
             /\ \A i \in 1..n : productos_df.rows[i].cluster = NULL
       /\ clu.warned => n = 0
       /\ (~clu.raised /\ ~clu.warned) =>
             /\ Len(clustering) = n
             /\ \A i \in 1..n : clustering[i].cluster_id = clu.clusters[i]

(* k-means was asked for more clusters than there are products and raised *)
C20_Witness ==
    /\ clu.set
    /\ clu.raised
    /\ clu.step = "perform_clustering"
    /\ Len(productos_df.rows) >= 2
    /\ clu.n_clusters > Len(productos_df.rows)

(* The assignments a run that saved every row has passed to               *)
(* save_clustering: for each row of the frame, its id and its label        *)
RunAssignments(df, clusters) ==
    [i \in 1..Len(df.rows) |-> [producto_id |-> df.rows[i].id, cluster_id |-> clusters[i]]]

(* C21: a run that ends without error or warning appends to the table      *)
(* clustering exactly one row per product of the frame, in the order of    *)
(* the frame, with the product's own id and the label k-means gave it in   *)
(* this run                                                                *)
C21_OnePerProduct ==
    [][(cluRuns' = cluRuns + 1 /\ ~clu'.raised /\ ~clu'.warned) =>
          clustering' = clustering \o RunAssignments(productos_df', clu'.clusters)]_vars

(* Three products, labelled into two clusters, all three saved *)
C21_Witness ==
    /\ clu.set
    /\ ~clu.raised
    /\ ~clu.warned
    /\ Len(productos_df.rows) = 3
    /\ Len(clustering) >= 3
    /\ \E i, j \in 1..3 : clu.clusters[i] # clu.clusters[j]

(* C22: the table clustering holds at most one row per product, and after  *)
(* a run that ended without error or warning it holds exactly the          *)
(* assignments of that run                                                 *)
C22_RecomputedWholesale ==
    clu.set =>
       /\ \A i \in 1..Len(productos_df.rows) :
              Cardinality({j \in 1..Len(clustering) :
                              clustering[j].producto_id = productos_df.rows[i].id}) <= 1
       /\ (~clu.raised /\ ~clu.warned) =>
              clustering = RunAssignments(productos_df, clu.clusters)

(* C29: a run in which save_clustering raised leaves no row in the table   *)
(* clustering                                                              *)
C29_AllOrNothing ==
    (clu.set /\ clu.raised /\ clu.step = "save_cluster_results") => clustering = <<>>

(* C30: once detect_sales_anomalies has run on the product's series, once  *)
(* or again, with every save_anomaly succeeding, the table anomalias holds *)
(* exactly one row of kind 'venta' per row labelled anomalous              *)
C30_Idempotent ==
    (/\ det["venta"].set
     /\ ~det["venta"].none
     /\ det["venta"].failed = {}
     /\ detPrev["venta"].failed = {}) =>
       Len(SavedOf("venta")) = Len(AnomalousRows(det["venta"].rows))

(***************************************************************************)
(* Further properties of the data layer.                                   *)
(***************************************************************************)
(* C28: whatever quantities register_sale is called with, no product's     *)
(* stock is above its initial stock and no row of ventas has a quantity    *)
(* below 1                                                                 *)
C28_NoRestock ==
    /\ \A p \in ProductIds : productos[p].stock_actual <= stock0[p]
    /\ \A i \in 1..Len(ventas) : ventas[i].cantidad >= 1

(***************************************************************************)
(* Further properties of the forecaster.                                   *)
(***************************************************************************)
(* The history is 90 consecutive days of zero sales *)
NinetyZeroDays(h) ==
    /\ ~h.none
    /\ h.dsOk
    /\ Len(h.rows) = HistoryDays
    /\ \A i \in 1..Len(h.rows) : h.rows[i].y = 0
    /\ \A i \in 1..(Len(h.rows) - 1) : h.rows[i + 1].ds = h.rows[i].ds + 1

(* C25: for a history of 90 consecutive days of zero sales, predict_sales   *)
(* asked for one or more days returns that many rows, all with yhat = 0,   *)
(* and calculate_metrics on that forecast returns trend_change = 0 and the *)
(* floor recommendation 15 / 30 / 45                                       *)
C25_ZeroHistory ==
    (NinetyZeroDays(hist) /\ periods >= 1) =>
       /\ forecast.set =>
             /\ ~forecast.none
             /\ Len(forecast.rows) = periods
             /\ \A j \in 1..Len(forecast.rows) : forecast.rows[j].yhat = 0
       /\ (forecast.set /\ metrics.res.set /\ metrics.forecast = forecast) =>
             /\ metrics.res.trend_change = 0
             /\ metrics.res.min_stock = StockMin(0)
             /\ metrics.res.optimal_stock = StockOptimal(0)
             /\ metrics.res.max_stock = StockMax(0)
             /\ metrics.res.min_stock = DefaultMetrics.min_stock
             /\ metrics.res.optimal_stock = DefaultMetrics.optimal_stock
             /\ metrics.res.max_stock = DefaultMetrics.max_stock

(* Ninety zero days were forecast for three days and the metrics computed  *)
(* on the normal path                                                      *)
C25_Witness ==
    /\ NinetyZeroDays(hist)
    /\ forecast.set
    /\ Len(forecast.rows) = 3
    /\ metrics.res.set
    /\ ~metrics.res.default
    /\ metrics.forecast = forecast

(***************************************************************************)
(* Properties of get_product_sales, the sessions and the pages.            *)
(***************************************************************************)
(* The frame has one row per day, in order, the last one for today *)
DailyRows(rows) ==
    /\ Len(rows) >= HistoryDays
    /\ rows[Len(rows)].ds = Today
    /\ \A i \in 1..(Len(rows) - 1) : rows[i + 1].ds = rows[i].ds + 1

(* C23: get_product_sales never raises; a frame it returns has one row per *)
(* day of the trailing window, at least 90 of them, without gap or         *)
(* duplicate, and no value below 0; after a query error it returns None    *)
C23_DenseSeries ==
    series.set =>
       /\ ~series.raised
       /\ ~series.frame.none =>
             /\ DailyRows(series.frame.rows)
             /\ \A i \in 1..Len(series.frame.rows) : series.frame.rows[i].y >= 0

(* C24: the conversation memory of the assistant a session holds contains  *)
(* only exchanges of that session                                          *)
C24_NoSharedState ==
    \A s \in Sessions :
       comp[s] \in Instances =>
          \A i \in 1..Len(memory[comp[s]]) : memory[comp[s]][i].session = s

(* C26: after the edit form was submitted with the stock it was filled     *)
(* with, the stock of the product is that stock less the sales committed   *)
(* since the form read it                                                  *)
C26_NoLostSale ==
    form.submitted =>
       productos[form.producto_id].stock_actual =
          form.stock_actual - (SumCantidad(ventas, form.producto_id) - form.sold)

(* C27: every press of 'Guardar Predicción' is followed by a call of        *)
(* save_prediction                                                         *)
C27_SaveReachable ==
    \A n \in 0..MaxClicks :
       (ui.trigger = "btn_guardar" /\ ui.save_prediction_calls = n)
          ~> (ui.save_prediction_calls > n)

====
